---- MODULE Spec2Model ----
(***************************************************************************)
(* codeornot/language.py: human_language and majority_language.            *)
(*                                                                         *)
(* A character is its code point.  A Python str is a sequence of code      *)
(* points; a Python value that may be None, a str or a list of str is a    *)
(* tagged record (NoneText, Str(s), List(l)).  cld2.detect and             *)
(* ftfy.fix_text are external: what each invocation does (the code it      *)
(* reports, no candidate, or the exception it raises) is an input of the   *)
(* call, the record env.                                                   *)
(***************************************************************************)
EXTENDS Integers, Sequences, FiniteSets, TLC

VARIABLES call, out, frames

vars == <<call, out, frames>>

(* ---------------------------------------------------------------- bounds *)
MaxParts == 2      \* longest list given to human_language
MaxElems == 3      \* longest string_list given to majority_language
MaxThreads == 2    \* concurrent classifications

(* ------------------------------------------------------------- constants *)
_min_text_length == 30

None == "<None>"

\* string.printable: digits, ascii_letters, punctuation and whitespace
\* (space, \t, \n, \r, \x0b, \x0c), all of them ASCII.
printable == (9..13) \cup (32..126)

(* ------------------------------------------------------------ Python data *)
NoneText == [kind |-> "None", s |-> <<>>, l |-> <<>>]
Str(s) == [kind |-> "str", s |-> s, l |-> <<>>]
List(l) == [kind |-> "list", s |-> <<>>, l |-> l]

Rep(c, n) == [i \in 1..n |-> c]

\* len(text) of a str or a list
PyLen(text) == IF text.kind = "list" THEN Len(text.l) ELSE Len(text.s)

\* ' '.join(l)
RECURSIVE join(_)
join(l) ==
    IF l = <<>> THEN <<>>
    ELSE IF Len(l) = 1 THEN l[1]
    ELSE l[1] \o <<32>> \o join(Tail(l))

\* ''.join(x for x in text if x in string.printable)
only_printable(s) == SelectSeq(s, LAMBDA x : x \in printable)

\* ftfy.fix_text, as far as the model's texts exercise it: the mojibake of a
\* UTF-8 e-acute read as Latin-1 (195, 169) is repaired to the character (233).
fix_text(s) ==
    LET starts == {i \in 1..(Len(s) - 1) : s[i] = 195 /\ s[i + 1] = 169}
        marked == [i \in 1..Len(s) |->
                     IF i \in starts THEN 233
                     ELSE IF (i - 1) \in starts THEN -1
                     ELSE s[i]]
    IN  SelectSeq(marked, LAMBDA x : x # -1)

(* --------------------------------------------- the external collaborators *)
\* What one cld2.detect(text, bestEffort=True) does: details[0][1] is one of
\* the codes (cld2 reports "un" for an unknown language), details is empty,
\* cld2.error is raised, or some other exception is raised.
Codes == {"en", "fr", "un"}
NoDetails == "<no details>"
Raises == {"cld2.error", "Exception"}
Outcomes == Codes \cup {NoDetails} \cup Raises

\* env.fix: ftfy.fix_text returns ("ok") or raises; env.d1, env.d2: the first
\* and the second invocation of cld2.detect.
Envs == [fix : {"ok", "Exception"}, d1 : Outcomes, d2 : Outcomes]

(* ---------------------------------------------------------- human_language *)
\* line 61: details[0][1] if details else None
guessed_language(outcome) == IF outcome = NoDetails THEN None ELSE outcome

\* a slip: only None is tested, as in "if text is None"
not_text_only_None(text) == text.kind = "None"

\* line 63: not text
not_text(text) ==
    \/ text.kind = "None"
    \/ text.kind = "str" /\ text.s = <<>>
    \/ text.kind = "list" /\ text.l = <<>>

\* a slip: a one-element list is left unjoined, as in "len(text) > 1"
is_joinable_above_one(text) == text.kind = "list" /\ Len(text.l) > 1

\* line 65: isinstance(text, list) and len(text) >= 1
is_joinable(text) == text.kind = "list" /\ Len(text.l) >= 1

\* a slip: the threshold is off by one
too_short_off_by_one(text) == PyLen(text) < _min_text_length - 1

\* line 67: len(text) < _min_text_length
too_short(text) == PyLen(text) < _min_text_length

\* a slip: the retry is taken on any exception, as in "except Exception"
is_cld2_error_any(exc) == TRUE

\* line 78: except cld2.error
is_cld2_error(exc) == exc = "cld2.error"

\* a slip: the outer handler catches cld2.error only
is_Exception_narrow(exc) == exc = "cld2.error"

\* line 84: except Exception (cld2.error is a subclass of Exception)
is_Exception(exc) == exc \in {"cld2.error", "Exception"}

\* line 83: lang if lang else "unknown"
lang_or_unknown(lang) == IF lang = None \/ lang = "" THEN "unknown" ELSE lang

Running == [status |-> "running", value |-> None]
Returned(v) == [status |-> "returned", value |-> v]
Raised(exc) == [status |-> "raised", value |-> exc]

\* The activation record of one human_language call.  calls is the sequence
\* of texts handed to cld2.detect so far.
NewFrame(text, enforce_length, env) ==
    [pc |-> "l63", text |-> text, enforce_length |-> enforce_length, env |-> env,
     lang |-> None, calls |-> <<>>, ret |-> Running]

Finish(f, ret) == [f EXCEPT !.pc = "done", !.ret = ret]

\* lines 84-85: an exception raised inside the try block
Handle(f, exc) ==
    IF is_Exception(exc) THEN Finish(f, Returned("unknown"))
    ELSE Finish(f, Raised(exc))

\* lines 63-64
L63(f) ==
    IF not_text(f.text) THEN Finish(f, Returned(None))
    ELSE [f EXCEPT !.pc = "l65"]

\* lines 65-66
L65(f) ==
    IF is_joinable(f.text)
    THEN [f EXCEPT !.pc = "l67", !.text = Str(join(f.text.l))]
    ELSE [f EXCEPT !.pc = "l67"]

\* a slip: the test of enforce_length is inverted
L67_inverted(f) ==
    IF too_short(f.text)
    THEN IF ~f.enforce_length THEN Finish(f, Raised("ValueError"))
         ELSE Finish(f, Returned("unknown"))
    ELSE [f EXCEPT !.pc = "l75"]

\* lines 67-72
L67(f) ==
    IF too_short(f.text)
    THEN IF f.enforce_length THEN Finish(f, Raised("ValueError"))
         ELSE Finish(f, Returned("unknown"))
    ELSE [f EXCEPT !.pc = "l75"]

\* line 75
L75(f) ==
    IF f.env.fix = "ok"
    THEN [f EXCEPT !.pc = "l77", !.text = Str(fix_text(f.text.s))]
    ELSE Handle(f, f.env.fix)

\* lines 76-78: the first invocation of the detector
L77(f) ==
    LET g == [f EXCEPT !.calls = Append(f.calls, f.text.s)]
    IN  IF f.env.d1 \in Raises
        THEN IF is_cld2_error(f.env.d1) THEN [g EXCEPT !.pc = "l81"]
             ELSE Handle(g, f.env.d1)
        ELSE [g EXCEPT !.pc = "l83", !.lang = guessed_language(f.env.d1)]

\* lines 81-82: the retry, inside the handler of cld2.error
L81(f) ==
    LET text == only_printable(f.text.s)
        g == [f EXCEPT !.text = Str(text), !.calls = Append(f.calls, text)]
    IN  IF f.env.d2 \in Raises THEN Handle(g, f.env.d2)
        ELSE [g EXCEPT !.pc = "l83", !.lang = guessed_language(f.env.d2)]

\* line 83
L83(f) == Finish(f, Returned(lang_or_unknown(f.lang)))

Step(f) ==
    CASE f.pc = "l63" -> L63(f)
      [] f.pc = "l65" -> L65(f)
      [] f.pc = "l67" -> L67(f)
      [] f.pc = "l75" -> L75(f)
      [] f.pc = "l77" -> L77(f)
      [] f.pc = "l81" -> L81(f)
      [] f.pc = "l83" -> L83(f)
      [] OTHER -> f

RECURSIVE Run(_)
Run(f) == IF f.pc = "done" THEN f ELSE Run(Step(f))

\* human_language(text, enforce_length) with the collaborators behaving as
\* env says: the finished activation record.
human_language(text, enforce_length, env) ==
    Run(NewFrame(text, enforce_length, env))

(* ------------------------------------------------------- majority_language *)
\* lines 99-100: a value that is not a list is treated as a one-element list
as_list(string_list) ==
    IF string_list.kind = "list"
    THEN [i \in 1..Len(string_list.l) |-> Str(string_list.l[i])]
    ELSE <<string_list>>

\* line 103: lang not in ['un', 'unknown']
is_kept(lang) == lang \notin {"un", "unknown"}

\* langs.count(c)
count(langs, c) == Cardinality({i \in 1..Len(langs) : langs[i] = c})

\* line 105: max(set(langs), key=langs.count).  max returns the first maximal
\* element in the iteration order of the set, which Python does not fix: any
\* element of the highest count can be the one returned.
most_common(langs) ==
    LET set == {langs[i] : i \in 1..Len(langs)}
    IN  {c \in set : \A d \in set : count(langs, c) >= count(langs, d)}

\* a slip: enforce_length is not handed on, so its default is used
classified_default(strings, enforce_length, envs) ==
    [i \in 1..Len(strings) |-> human_language(strings[i], FALSE, envs[i])]

\* line 101: the per-element calls, in order
classified(strings, enforce_length, envs) ==
    [i \in 1..Len(strings) |-> human_language(strings[i], enforce_length, envs[i])]

\* lines 101-107, given the per-element calls.  The result is a record: fs,
\* the human_language calls that ran to their end (the comprehension stops at
\* the first one that raises); langs, the list after line 103; rets, the
\* values the call can end with.
aggregate(all) ==
    LET bad == {i \in 1..Len(all) : all[i].ret.status = "raised"}
    IN  IF bad # {}
        THEN LET k == CHOOSE i \in bad : \A j \in bad : i <= j
             IN  [fs |-> SubSeq(all, 1, k), langs |-> <<>>, rets |-> {all[k].ret}]
        ELSE LET results == [i \in 1..Len(all) |-> all[i].ret.value]
                 langs == SelectSeq(results, is_kept)
             IN  [fs |-> all, langs |-> langs,
                  rets |-> IF langs # <<>>
                           THEN {Returned(c) : c \in most_common(langs)}
                           ELSE {Returned("unknown")}]

\* lines 99-107
majority_language(string_list, enforce_length, envs) ==
    aggregate(classified(as_list(string_list), enforce_length, envs))

(* ------------------------------------------------------------------ inputs *)
a(n) == Rep(97, n)

\* strings given to human_language: empty, short, at and over the minimum
\* length, with a character outside string.printable, with mojibake.
Strings ==
    { <<>>, a(1), a(_min_text_length - 1), a(_min_text_length),
      a(_min_text_length + 1),
      <<233>> \o a(_min_text_length - 1),
      <<195, 169>> \o a(_min_text_length - 2),
      <<195, 169>> \o a(_min_text_length - 3),
      Rep(233, _min_text_length) }

\* elements of the lists given to human_language
Parts ==
    { <<>>, a(14), a(15), a(_min_text_length - 1), a(_min_text_length),
      <<195, 169>> \o a(13) }

Seqs(S, n) == UNION {[1..k -> S] : k \in 0..n}

Texts ==
    {NoneText} \cup {Str(s) : s \in Strings}
               \cup {List(l) : l \in Seqs(Parts, MaxParts)}

\* elements of the lists given to majority_language, and what the
\* collaborators do on each
ElemStrings == { <<>>, a(_min_text_length - 1), a(_min_text_length) }
ElemEnvs == {e \in Envs : e.fix = "ok" /\ e.d2 = "en" /\ e.d1 # "Exception"}

StringLists ==
    {Str(s) : s \in ElemStrings} \cup {List(l) : l \in Seqs(ElemStrings, MaxElems)}

(* ------------------------------------------------------------------- state *)
\* call: the call in progress (op, its arguments, what the collaborators do);
\* out: what it ended with.  The module keeps no state between calls.
Idle == [op |-> "idle"]

Init ==
    /\ call = Idle
    /\ out = Idle
    /\ frames = <<>>

\* human_language(text, enforce_length)
HumanLanguage ==
    /\ call.op = "idle"
    /\ \E text \in Texts, enforce_length \in BOOLEAN, env \in Envs :
          /\ call' = [op |-> "human_language", text |-> text,
                      enforce_length |-> enforce_length, env |-> env]
          /\ out' = human_language(text, enforce_length, env)
    /\ UNCHANGED frames

\* majority_language(string_list, enforce_length)
MajorityLanguage ==
    /\ call.op = "idle"
    /\ \E string_list \in StringLists, enforce_length \in BOOLEAN :
          \E envs \in [1..Len(as_list(string_list)) -> ElemEnvs] :
             LET m == majority_language(string_list, enforce_length, envs)
             IN  /\ call' = [op |-> "majority_language", string_list |-> string_list,
                             enforce_length |-> enforce_length, envs |-> envs]
                 /\ \E ret \in m.rets :
                       out' = [fs |-> m.fs, langs |-> m.langs, ret |-> ret]
    /\ UNCHANGED frames

\* the caller takes the result
Return ==
    /\ call.op # "idle"
    /\ call' = Idle
    /\ out' = Idle
    /\ UNCHANGED frames

Next == HumanLanguage \/ MajorityLanguage \/ Return

Spec == Init /\ [][Next]_vars

(* ------------------------------------------------- concurrent classification *)
\* The per-element classifications of line 101 run as concurrent activations,
\* interleaved statement by statement; each has its own activation record,
\* and _min_text_length is the only module-level name they read.
ThreadTexts ==
    { Str(a(_min_text_length - 1)), Str(<<233>> \o a(_min_text_length - 1)),
      List(<<a(14), a(15)>>) }
ThreadEnvs ==
    {e \in Envs : /\ e.fix = "ok"
                  /\ \/ e.d1 = "en" /\ e.d2 = "en"
                     \/ e.d1 = "cld2.error" /\ e.d2 = "fr"}

InitThreads ==
    \E n \in 1..MaxThreads, enforce_length \in BOOLEAN :
       \E strings \in [1..n -> ThreadTexts], envs \in [1..n -> ThreadEnvs] :
          /\ call = [op |-> "threads", strings |-> strings,
                     enforce_length |-> enforce_length, envs |-> envs]
          /\ frames = [i \in 1..n |-> NewFrame(strings[i], enforce_length, envs[i])]
          /\ out = Idle

\* a slip: text is a module-level variable, which every activation writes
ThreadStep_shared_text(i) ==
    /\ frames[i].pc # "done"
    /\ frames' = [j \in DOMAIN frames |->
                    IF j = i THEN Step(frames[i])
                    ELSE [frames[j] EXCEPT !.text = Step(frames[i]).text]]
    /\ UNCHANGED <<call, out>>

\* one statement of activation i
ThreadStep(i) ==
    /\ frames[i].pc # "done"
    /\ frames' = [frames EXCEPT ![i] = Step(frames[i])]
    /\ UNCHANGED <<call, out>>

\* lines 103-107, once every activation has ended
Aggregate ==
    /\ out = Idle
    /\ \A i \in DOMAIN frames : frames[i].pc = "done"
    /\ LET m == aggregate(frames)
       IN  \E ret \in m.rets :
              out' = [fs |-> m.fs, langs |-> m.langs, ret |-> ret]
    /\ UNCHANGED <<call, frames>>

NextThreads == (\E i \in DOMAIN frames : ThreadStep(i)) \/ Aggregate

SpecThreads == InitThreads /\ [][NextThreads]_vars

(* ================================================================== claims *)
\* The str that the length gate of line 67 measures: the text itself, or the
\* elements of a list joined by single spaces.
joined(text) == IF text.kind = "list" THEN join(text.l) ELSE text.s

\* a str with at least one character, or a list with at least one element
has_content(text) ==
    \/ text.kind = "str" /\ Len(text.s) >= 1
    \/ text.kind = "list" /\ Len(text.l) >= 1

\* a str or a list whose (joined) length is below the minimum
below_minimum(text) ==
    text.kind # "None" /\ Len(joined(text)) < _min_text_length

\* C1, as stated: every text whose length is below the minimum length, given
\* with enforce_length=True, makes human_language raise the length error.
C1_AsStated ==
    (call.op = "human_language" /\ below_minimum(call.text) /\ call.enforce_length)
        => out.ret = Raised("ValueError")

\* C1, amended: every text that has content (a non-empty str, or a list of at
\* least one element) and whose joined length is below the minimum length,
\* given with enforce_length=True, makes human_language raise the length error.
C1_RaisesWhenShort ==
    (/\ call.op = "human_language"
     /\ has_content(call.text)
     /\ below_minimum(call.text)
     /\ call.enforce_length)
        => out.ret = Raised("ValueError")

C1_Witness ==
    /\ call.op = "human_language"
    /\ call.text = Str(a(_min_text_length - 1))
    /\ call.enforce_length
    /\ out.ret = Raised("ValueError")

\* C2, as stated: every text whose length is below the minimum length, given
\* with enforce_length=False, makes human_language return "unknown".
C2_AsStated ==
    (call.op = "human_language" /\ below_minimum(call.text) /\ ~call.enforce_length)
        => out.ret = Returned("unknown")

\* C2, amended: every text that has content and whose joined length is below
\* the minimum length, given with enforce_length=False, makes human_language
\* return "unknown".
C2_UnknownWhenShort ==
    (/\ call.op = "human_language"
     /\ has_content(call.text)
     /\ below_minimum(call.text)
     /\ ~call.enforce_length)
        => out.ret = Returned("unknown")

C2_Witness ==
    /\ call.op = "human_language"
    /\ call.text = List(<<a(14), a(14)>>)
    /\ ~call.enforce_length
    /\ out.ret = Returned("unknown")

\* C3: with enforce_length=False, majority_language returns "unknown" whenever
\* no element is classified to a language code (the list is empty, the input
\* is the empty string, every element is empty, too short or undetectable).
C3_UnknownWhenNothingDetected ==
    (/\ call.op = "majority_language"
     /\ ~call.enforce_length
     /\ \A i \in 1..Len(out.fs) : out.fs[i].ret.value \notin {"en", "fr"})
        => out.ret = Returned("unknown")

\* C4: for a str or a list of str, human_language raises nothing but the
\* length error of enforce_length; past the length gate, a failing text repair,
\* a detector exception that is not cld2.error, a cld2.error followed by a
\* failing retry, and a detector result without candidates all give "unknown".
C4_OnlyLengthErrorRaised ==
    call.op = "human_language" =>
        /\ out.ret.status = "raised" =>
              /\ out.ret.value = "ValueError"
              /\ call.enforce_length
              /\ below_minimum(call.text)
        /\ (/\ call.text.kind # "None"
            /\ Len(joined(call.text)) >= _min_text_length
            /\ \/ call.env.fix # "ok"
               \/ call.env.d1 \in {"Exception", NoDetails}
               \/ call.env.d1 = "cld2.error" /\ call.env.d2 \in Raises \cup {NoDetails})
              => out.ret = Returned("unknown")

C4_Witness ==
    /\ call.op = "human_language"
    /\ call.text.kind = "list"
    /\ call.env.fix = "ok"
    /\ call.env.d1 = "cld2.error"
    /\ call.env.d2 = "Exception"
    /\ Len(out.calls) = 2
    /\ out.ret = Returned("unknown")

\* C5: when some element is classified to a language code, majority_language
\* returns a code whose number of occurrences among the per-element results,
\* "unknown", "un" and the results of empty elements left out, is at least that
\* of every other code; the value returned is never None.
C5_MostFrequentCode ==
    (/\ call.op = "majority_language"
     /\ out.ret.status = "returned"
     /\ \E i \in 1..Len(out.fs) : out.fs[i].ret.value \in {"en", "fr"})
        => LET results == [i \in 1..Len(out.fs) |-> out.fs[i].ret.value]
               votes == SelectSeq(results, LAMBDA v : v \notin {"unknown", "un", None})
           IN  /\ out.ret.value # None
               /\ \E i \in 1..Len(votes) : votes[i] = out.ret.value
               /\ \A i \in 1..Len(votes) :
                     count(votes, out.ret.value) >= count(votes, votes[i])

\* C6: human_language returns None for None and for the empty string, with
\* either value of enforce_length, and the detector is not invoked.
C6_NoneWhenEmpty ==
    (/\ call.op = "human_language"
     /\ \/ call.text.kind = "None"
        \/ call.text.kind = "str" /\ call.text.s = <<>>)
        => /\ out.ret = Returned(None)
           /\ out.ret # Returned("unknown")
           /\ out.calls = <<>>

C6_Witness ==
    /\ call.op = "human_language"
    /\ call.text = Str(<<>>)
    /\ call.enforce_length
    /\ out.ret = Returned(None)

\* C7: for a list of at least one str whose space-joined length is at least the
\* minimum length, human_language ends as it does on the joined str, with the
\* collaborators behaving alike: the same result and the same texts handed to
\* the detector.
C7_ListAsJoinedString ==
    (/\ call.op = "human_language"
     /\ call.text.kind = "list"
     /\ Len(call.text.l) >= 1
     /\ Len(join(call.text.l)) >= _min_text_length)
        => LET g == human_language(Str(join(call.text.l)), call.enforce_length, call.env)
           IN  /\ out.ret = g.ret
               /\ out.calls = g.calls

C7_Witness ==
    /\ call.op = "human_language"
    /\ call.text = List(<<a(14), a(15)>>)
    /\ out.calls = << a(14) \o <<32>> \o a(15) >>
    /\ out.ret = Returned("en")

\* the str elements that majority_language classifies
elements(string_list) ==
    LET strings == as_list(string_list) IN [i \in 1..Len(strings) |-> strings[i].s]

\* C8, as stated: with enforce_length=True majority_language raises the length
\* error if any element is shorter than the minimum length; with
\* enforce_length=False it does not raise.
C8_AsStated ==
    call.op = "majority_language" =>
        /\ (/\ call.enforce_length
            /\ \E i \in 1..Len(elements(call.string_list)) :
                  Len(elements(call.string_list)[i]) < _min_text_length)
              => out.ret = Raised("ValueError")
        /\ ~call.enforce_length => out.ret.status = "returned"

\* C8, amended: with enforce_length=True majority_language raises the length
\* error if any element is non-empty and shorter than the minimum length,
\* whatever the other elements classify to; with enforce_length=False it does
\* not raise.
C8_EnforceLengthPassedOn ==
    call.op = "majority_language" =>
        /\ (/\ call.enforce_length
            /\ \E i \in 1..Len(elements(call.string_list)) :
                  /\ Len(elements(call.string_list)[i]) >= 1
                  /\ Len(elements(call.string_list)[i]) < _min_text_length)
              => out.ret = Raised("ValueError")
        /\ ~call.enforce_length => out.ret.status = "returned"

C8_Witness ==
    /\ call.op = "majority_language"
    /\ call.enforce_length
    /\ call.string_list = List(<<a(_min_text_length), a(_min_text_length - 1)>>)
    /\ Len(out.fs) = 2
    /\ out.fs[1].ret = Returned("fr")
    /\ out.ret = Raised("ValueError")

\* C9: classifications that run concurrently, interleaved in any order, each
\* end as the same call does when run alone (the same result, the same texts
\* handed to the detector), and the majority taken over them is the one the
\* sequential majority_language takes whenever the highest count is not tied.
C9_ConcurrentAsSequential ==
    /\ \A i \in DOMAIN frames :
          frames[i].pc = "done" =>
             LET g == human_language(call.strings[i], call.enforce_length, call.envs[i])
             IN  /\ frames[i].ret = g.ret
                 /\ frames[i].calls = g.calls
    /\ out # Idle =>
          LET m == aggregate(classified(call.strings, call.enforce_length, call.envs))
          IN  /\ out.ret \in m.rets
              /\ Cardinality(m.rets) = 1 => m.rets = {out.ret}

C9_Witness ==
    /\ out # Idle
    /\ Len(frames) = 2
    /\ frames[1].ret = Returned("unknown")
    /\ frames[2].ret = Returned("fr")
    /\ Len(frames[2].calls) = 2
    /\ out.ret = Returned("fr")

\* what the detector receives first: the text, joined and repaired
repaired(text) == fix_text(joined(text))

\* C10, as stated: the detector is not invoked when human_language returns
\* None or takes the short-text branch; otherwise it is invoked once on the
\* repaired text, and a second and last time exactly when the first invocation
\* raised cld2.error, then on the printable characters of the repaired text.
C10_AsStated ==
    call.op = "human_language" =>
        IF call.text.kind = "None" \/ below_minimum(call.text)
        THEN out.calls = <<>>
        ELSE /\ Len(out.calls) \in {1, 2}
             /\ out.calls[1] = repaired(call.text)
             /\ Len(out.calls) = 2 <=> call.env.d1 = "cld2.error"
             /\ Len(out.calls) = 2 => out.calls[2] = only_printable(out.calls[1])

\* C10, amended: as stated, provided the text repair returns; when the text
\* repair raises, the detector is not invoked at all.
C10_DetectorProtocol ==
    call.op = "human_language" =>
        IF call.text.kind = "None" \/ below_minimum(call.text) \/ call.env.fix # "ok"
        THEN out.calls = <<>>
        ELSE /\ Len(out.calls) \in {1, 2}
             /\ out.calls[1] = repaired(call.text)
             /\ Len(out.calls) = 2 <=> call.env.d1 = "cld2.error"
             /\ Len(out.calls) = 2 => out.calls[2] = only_printable(out.calls[1])

C10_Witness ==
    /\ call.op = "human_language"
    /\ call.text = Str(<<195, 169>> \o a(_min_text_length - 2))
    /\ call.env.d1 = "cld2.error"
    /\ out.calls = << <<233>> \o a(_min_text_length - 2), a(_min_text_length - 2) >>
    /\ out.ret = Returned("en")

====
